---- MODULE Spec2Model ----
(***************************************************************************)
(* State-machine model of TetrisEnv (src/tetris/tetris_env.py): the board, *)
(* the falling piece, the episode counters, and the reset / step contract. *)
(* Rewards are kept as integers: every reward is the code's value times 20 *)
(* (0.05 -> 1, 0.10 -> 2, 0.25 -> 5, 0.5 -> 10, 10 -> 200, 100 -> 2000).   *)
(***************************************************************************)
EXTENDS Integers, Sequences, FiniteSets, TLC

(* ---------------- bounds of the model ---------------- *)

\* The board of the code is 10 x 20; the model explores a scaled board.
BOARD_WIDTH == 4
BOARD_HEIGHT == 4
\* drop_speed given at construction ranges over 1..MaxDropSpeed.
MaxDropSpeed == 2
\* max_steps given at construction.
MaxStepsCfg == 3
\* Live step calls explored per episode.
StepCap == 4
\* Live step calls explored per episode by the longer episodes of SpecLong.
LongStepCap == 5
\* Calls made on the two instances of envs taken together.
TwoCallCap == 3
\* _spawn_piece draws among the first NumKinds names of SHAPE_NAMES.
NumKinds == 3

Min2(a, b) == IF a < b THEN a ELSE b

(* ---------------- piece catalog ---------------- *)

SHAPE_NAMES == <<"I", "O", "T", "S", "Z", "J", "L">>

Kinds == {SHAPE_NAMES[n] : n \in 1..Len(SHAPE_NAMES)}

\* The values self._rnd.choice(self.SHAPE_NAMES) takes in the model.
Drawn == {SHAPE_NAMES[n] : n \in 1..Min2(NumKinds, Len(SHAPE_NAMES))}

SHAPES ==
  [k \in Kinds |->
    CASE k = "I" -> << << <<0,0,0,0>>, <<1,1,1,1>>, <<0,0,0,0>>, <<0,0,0,0>> >>,
                       << <<0,0,1,0>>, <<0,0,1,0>>, <<0,0,1,0>>, <<0,0,1,0>> >>,
                       << <<0,0,0,0>>, <<0,0,0,0>>, <<1,1,1,1>>, <<0,0,0,0>> >>,
                       << <<0,1,0,0>>, <<0,1,0,0>>, <<0,1,0,0>>, <<0,1,0,0>> >> >>
      [] k = "O" -> << << <<0,1,1,0>>, <<0,1,1,0>>, <<0,0,0,0>>, <<0,0,0,0>> >>,
                       << <<0,1,1,0>>, <<0,1,1,0>>, <<0,0,0,0>>, <<0,0,0,0>> >>,
                       << <<0,1,1,0>>, <<0,1,1,0>>, <<0,0,0,0>>, <<0,0,0,0>> >>,
                       << <<0,1,1,0>>, <<0,1,1,0>>, <<0,0,0,0>>, <<0,0,0,0>> >> >>
      [] k = "T" -> << << <<0,1,0,0>>, <<1,1,1,0>>, <<0,0,0,0>>, <<0,0,0,0>> >>,
                       << <<0,1,0,0>>, <<0,1,1,0>>, <<0,1,0,0>>, <<0,0,0,0>> >>,
                       << <<0,0,0,0>>, <<1,1,1,0>>, <<0,1,0,0>>, <<0,0,0,0>> >>,
                       << <<0,1,0,0>>, <<1,1,0,0>>, <<0,1,0,0>>, <<0,0,0,0>> >> >>
      [] k = "S" -> << << <<0,1,1,0>>, <<1,1,0,0>>, <<0,0,0,0>>, <<0,0,0,0>> >>,
                       << <<0,1,0,0>>, <<0,1,1,0>>, <<0,0,1,0>>, <<0,0,0,0>> >>,
                       << <<0,0,0,0>>, <<0,1,1,0>>, <<1,1,0,0>>, <<0,0,0,0>> >>,
                       << <<1,0,0,0>>, <<1,1,0,0>>, <<0,1,0,0>>, <<0,0,0,0>> >> >>
      [] k = "Z" -> << << <<1,1,0,0>>, <<0,1,1,0>>, <<0,0,0,0>>, <<0,0,0,0>> >>,
                       << <<0,0,1,0>>, <<0,1,1,0>>, <<0,1,0,0>>, <<0,0,0,0>> >>,
                       << <<0,0,0,0>>, <<1,1,0,0>>, <<0,1,1,0>>, <<0,0,0,0>> >>,
                       << <<0,1,0,0>>, <<1,1,0,0>>, <<1,0,0,0>>, <<0,0,0,0>> >> >>
      [] k = "J" -> << << <<1,0,0,0>>, <<1,1,1,0>>, <<0,0,0,0>>, <<0,0,0,0>> >>,
                       << <<0,1,1,0>>, <<0,1,0,0>>, <<0,1,0,0>>, <<0,0,0,0>> >>,
                       << <<0,0,0,0>>, <<1,1,1,0>>, <<0,0,1,0>>, <<0,0,0,0>> >>,
                       << <<0,1,0,0>>, <<0,1,0,0>>, <<1,1,0,0>>, <<0,0,0,0>> >> >>
      [] k = "L" -> << << <<0,0,1,0>>, <<1,1,1,0>>, <<0,0,0,0>>, <<0,0,0,0>> >>,
                       << <<0,1,0,0>>, <<0,1,0,0>>, <<0,1,1,0>>, <<0,0,0,0>> >>,
                       << <<0,0,0,0>>, <<1,1,1,0>>, <<1,0,0,0>>, <<0,0,0,0>> >>,
                       << <<1,1,0,0>>, <<0,1,0,0>>, <<0,1,0,0>>, <<0,0,0,0>> >> >>]

\* SHAPE_NAMES.index(kind) + 1, the tag a locked cell carries.
Pid(kind) == CHOOSE n \in 1..Len(SHAPE_NAMES) : SHAPE_NAMES[n] = kind

\* The set cells (i, j) of every rotation mask: row i, column j, both 0-based
\* ("if shape[i][j]" in _can_move and _lock_piece).
MaskCells ==
  [k \in Kinds |->
    [r \in 0..3 |->
      {c \in (0..3) \X (0..3) : SHAPES[k][r + 1][c[1] + 1][c[2] + 1] = 1}]]

Cells(kind, rotation) == MaskCells[kind][rotation]

(* ---------------- board ---------------- *)

\* board[y + 1][x + 1] is the code's board[y, x].
ZeroRow == [c \in 1..BOARD_WIDTH |-> 0]

EmptyBoard == [r \in 1..BOARD_HEIGHT |-> ZeroRow]

At(b, y, x) == b[y + 1][x + 1]

SetMax(S) == CHOOSE m \in S : \A n \in S : n <= m

SetMin(S) == CHOOSE m \in S : \A n \in S : m <= n

Abs(n) == IF n < 0 THEN 0 - n ELSE n

(* ---------------- placement validator ---------------- *)

\* _can_move without its test of the occupied cells (line 245 left out).
CanMoveBoundsOnly(b, kind, x, y, rotation) ==
  \A c \in Cells(kind, rotation) :
    LET bx == x + c[2]
        by == y + c[1]
    IN  ~(bx < 0 \/ bx >= BOARD_WIDTH \/ by >= BOARD_HEIGHT)

\* _can_move rejecting every cell above the board (by < 0 added to the test
\* of line 243).
CanMoveNoTop(b, kind, x, y, rotation) ==
  \A c \in Cells(kind, rotation) :
    LET bx == x + c[2]
        by == y + c[1]
    IN  IF bx < 0 \/ bx >= BOARD_WIDTH \/ by >= BOARD_HEIGHT \/ by < 0
          THEN FALSE
          ELSE IF At(b, by, bx) # 0 THEN FALSE ELSE TRUE

\* _can_move(x, y, rotation) for the current piece kind on board b.
CanMove(b, kind, x, y, rotation) ==
  \A c \in Cells(kind, rotation) :
    LET bx == x + c[2]
        by == y + c[1]
    IN  IF bx < 0 \/ bx >= BOARD_WIDTH \/ by >= BOARD_HEIGHT
          THEN FALSE
          ELSE IF by >= 0 /\ At(b, by, bx) # 0 THEN FALSE ELSE TRUE

(* ---------------- lock and clear ---------------- *)

\* The merge of _lock_piece that also writes the cell at the piece's anchor.
MergeWithAnchor(b, kind, rotation, x, y) ==
  [r \in 1..BOARD_HEIGHT |->
    [c \in 1..BOARD_WIDTH |->
      IF \/ <<(r - 1) - y, (c - 1) - x>> \in Cells(kind, rotation)
         \/ <<r - 1, c - 1>> = <<y, x>>
        THEN Pid(kind)
        ELSE b[r][c]]]

\* The merge loop of _lock_piece: every mask cell inside the board is tagged.
Merge(b, kind, rotation, x, y) ==
  [r \in 1..BOARD_HEIGHT |->
    [c \in 1..BOARD_WIDTH |->
      IF <<(r - 1) - y, (c - 1) - x>> \in Cells(kind, rotation)
        THEN Pid(kind)
        ELSE b[r][c]]]

\* lines = [y for y in range(BOARD_HEIGHT) if np.all(board[y, :] > 0)]
FullRows(b) ==
  {y \in 0..(BOARD_HEIGHT - 1) : \A x \in 0..(BOARD_WIDTH - 1) : At(b, y, x) > 0}

\* One pass of the loop body: np.delete(board, y, axis=0), then np.vstack of
\* a zero row on top.
DeleteRow(b, y) ==
  <<ZeroRow>> \o SubSeq(b, 1, y) \o SubSeq(b, y + 2, BOARD_HEIGHT)

\* for y in reversed(lines): the indices computed before the loop are used
\* from the largest to the smallest, each against the board as it then is.
RECURSIVE RemoveLines(_, _)
RemoveLines(b, lines) ==
  IF lines = {}
    THEN b
    ELSE LET y == SetMax(lines)
         IN  RemoveLines(DeleteRow(b, y), lines \ {y})

ScoreTable == <<0, 100, 300, 500, 800>>


\* _clear_lines without line 263: the score rises, lines_cleared does not.
ClearLinesScoreOnly(s) ==
  LET lines == FullRows(s.board)
  IN  IF lines # {}
        THEN [s EXCEPT !.score = @ + ScoreTable[Min2(Cardinality(lines), 4) + 1],
                       !.board = RemoveLines(s.board, lines)]
        ELSE s

\* _clear_lines on a record s of the instance's fields.
ClearLines(s) ==
  LET lines == FullRows(s.board)
      n == Cardinality(lines)
  IN  IF lines # {}
        THEN [s EXCEPT !.lines_cleared = @ + n,
                       !.score = @ + ScoreTable[Min2(n, 4) + 1],
                       !.board = RemoveLines(s.board, lines)]
        ELSE s

\* _lock_piece: merge, then _clear_lines. The field locks keeps, for every lock
\* of the running step call, the board right after the merge, the board right
\* after the clear and the kind the following respawn draws.
LockPiece(s) ==
  LET merged == [s EXCEPT !.board = Merge(s.board, s.piece, s.rot, s.x, s.y)]
      cleared == ClearLines(merged)
  IN  [cleared EXCEPT !.locks =
         Append(@, [pre |-> merged.board, post |-> cleared.board,
                    spawned |-> s.piece])]

SpawnX == (BOARD_WIDTH \div 2) - 2

\* _spawn_next_piece without its final placement test: game_over is never set.
SpawnNextPieceUnchecked(s, kind) ==
  [s EXCEPT !.pieces_placed = @ + 1,
            !.piece = kind,
            !.rot = 0,
            !.x = SpawnX,
            !.y = 0,
            !.locks[Len(s.locks)].spawned = kind]

\* _spawn_next_piece that counts a piece only when its spawn is legal.
SpawnNextPieceCountLegal(s, kind) ==
  LET t == [s EXCEPT !.piece = kind,
                     !.rot = 0,
                     !.x = SpawnX,
                     !.y = 0,
                     !.locks[Len(s.locks)].spawned = kind]
  IN  IF ~CanMove(t.board, t.piece, t.x, t.y, t.rot)
        THEN [t EXCEPT !.game_over = TRUE,
                       !.at_over = IF s.game_over THEN @
                                   ELSE [board |-> t.board, score |-> t.score,
                                         lines_cleared |-> t.lines_cleared,
                                         pieces_placed |-> t.pieces_placed]]
        ELSE [t EXCEPT !.pieces_placed = @ + 1]

\* _spawn_next_piece that spawns the piece one row above the board (y = -1).
SpawnNextPieceAbove(s, kind) ==
  LET t == [s EXCEPT !.pieces_placed = @ + 1,
                     !.piece = kind,
                     !.rot = 0,
                     !.x = SpawnX,
                     !.y = 0 - 1,
                     !.locks[Len(s.locks)].spawned = kind]
  IN  IF ~CanMove(t.board, t.piece, t.x, t.y, t.rot)
        THEN [t EXCEPT !.game_over = TRUE,
                       !.at_over = IF s.game_over THEN @
                                   ELSE [board |-> t.board, score |-> t.score,
                                         lines_cleared |-> t.lines_cleared,
                                         pieces_placed |-> t.pieces_placed]]
        ELSE t

\* _spawn_next_piece; kind is the value drawn by _spawn_piece. The field at_over
\* keeps the board and counters as they are when game_over is first set.
SpawnNextPiece(s, kind) ==
  LET t == [s EXCEPT !.pieces_placed = @ + 1,
                     !.piece = kind,
                     !.rot = 0,
                     !.x = SpawnX,
                     !.y = 0,
                     !.locks[Len(s.locks)].spawned = kind]
  IN  IF ~CanMove(t.board, t.piece, t.x, t.y, t.rot)
        THEN [t EXCEPT !.game_over = TRUE,
                       !.at_over = IF s.game_over THEN @
                                   ELSE [board |-> t.board, score |-> t.score,
                                         lines_cleared |-> t.lines_cleared,
                                         pieces_placed |-> t.pieces_placed]]
        ELSE t

(* ---------------- heuristic evaluator ---------------- *)

\* _get_column_heights, one column.
ColumnHeight(b, x) ==
  LET filled == {y \in 0..(BOARD_HEIGHT - 1) : At(b, y, x) > 0}
  IN  IF filled = {} THEN 0 ELSE BOARD_HEIGHT - SetMin(filled)

ColumnHeights(b) == [c \in 1..BOARD_WIDTH |-> ColumnHeight(b, c - 1)]

RECURSIVE SumSeq(_, _)
SumSeq(h, n) == IF n = 0 THEN 0 ELSE h[n] + SumSeq(h, n - 1)

AggHeight(b) == SumSeq(ColumnHeights(b), BOARD_WIDTH)

\* _get_max_height: the first row, from the top, holding a filled cell.
MaxHeight(b) ==
  LET rows == {y \in 0..(BOARD_HEIGHT - 1) :
                 \E x \in 0..(BOARD_WIDTH - 1) : At(b, y, x) > 0}
  IN  IF rows = {} THEN 0 ELSE BOARD_HEIGHT - SetMin(rows)

\* _count_holes: empty cells below a filled cell of the same column.
CountHoles(b) ==
  Cardinality({c \in (0..(BOARD_HEIGHT - 1)) \X (0..(BOARD_WIDTH - 1)) :
                 /\ At(b, c[1], c[2]) = 0
                 /\ \E y \in 0..(c[1] - 1) : At(b, y, c[2]) > 0})

RECURSIVE SumAbsDiff(_, _)
SumAbsDiff(h, n) ==
  IF n <= 1 THEN 0 ELSE Abs(h[n] - h[n - 1]) + SumAbsDiff(h, n - 1)

\* _get_bumpiness: sum(abs(diff(heights))).
Bumpiness(b) == SumAbsDiff(ColumnHeights(b), BOARD_WIDTH)

(* ---------------- observation and info ---------------- *)

OneHot(kind) == [n \in 1..Len(SHAPE_NAMES) |-> IF n = Pid(kind) THEN 1 ELSE 0]

\* The largest power of two, from p up, that is at most n (p <= n).
RECURSIVE TopPower(_, _)
TopPower(n, p) == IF 2 * p > n THEN p ELSE TopPower(n, 2 * p)

\* A non-negative integer stored as float32 (24 bits of mantissa): itself
\* below 2^24, otherwise the nearest multiple of the spacing of float32 at
\* that magnitude, ties to the even multiple.
ToFloat32(n) ==
  IF n < 16777216
    THEN n
    ELSE LET ulp == TopPower(n, 16777216) \div 8388608
             q == n \div ulp
             r == n % ulp
         IN  IF 2 * r < ulp \/ (2 * r = ulp /\ q % 2 = 0)
               THEN q * ulp
               ELSE (q + 1) * ulp

\* _get_obs with the score component divided by 100.
GetObsScoreScaled(s) ==
  LET col_h == ColumnHeights(s.board)
  IN  <<ToFloat32(SumSeq(col_h, BOARD_WIDTH)),
        ToFloat32(SetMax({col_h[c] : c \in 1..BOARD_WIDTH})),
        ToFloat32(SumAbsDiff(col_h, BOARD_WIDTH)),
        ToFloat32(CountHoles(s.board)),
        ToFloat32(s.score \div 100)>> \o OneHot(s.piece)

\* _get_obs: [agg_height, max(col_h), bumpiness, holes, score] + one-hot, as
\* an array of float32.
GetObs(s) ==
  LET col_h == ColumnHeights(s.board)
  IN  <<ToFloat32(SumSeq(col_h, BOARD_WIDTH)),
        ToFloat32(SetMax({col_h[c] : c \in 1..BOARD_WIDTH})),
        ToFloat32(SumAbsDiff(col_h, BOARD_WIDTH)),
        ToFloat32(CountHoles(s.board)),
        ToFloat32(s.score)>> \o OneHot(s.piece)

GetInfo(s) ==
  [lines_cleared |-> s.lines_cleared,
   pieces_placed |-> s.pieces_placed,
   max_height |-> MaxHeight(s.board),
   holes |-> CountHoles(s.board),
   score |-> s.score,
   current_y |-> s.y]


(* ---------------- state ---------------- *)

VARIABLES
  board,             \* self.board
  current_piece,     \* self.current_piece
  current_rotation,  \* self.current_rotation
  current_x,         \* self.current_x
  current_y,         \* self.current_y
  steps,             \* self.steps
  lines_cleared,     \* self.lines_cleared
  pieces_placed,     \* self.pieces_placed
  score,             \* self.score
  game_over,         \* self.game_over
  drop_counter,      \* self.drop_counter
  drop_speed,        \* self.drop_speed (construction time)
  max_steps,         \* self.max_steps (construction time)
  ret,               \* what the last reset / step call returned
  last,              \* the locals of the last step call (mid: the piece
                     \* as the ACTIONS block left it)
  at_over,           \* board and counters at the moment game_over was set
  envs,              \* two more instances of TetrisEnv, each with its own
                     \* fields and its own generator self._rnd; empty where
                     \* one instance is studied
  call_log           \* how many calls were made on envs, and the instance
                     \* the last one was made on

vars ==
  <<board, current_piece, current_rotation, current_x, current_y, steps,
    lines_cleared, pieces_placed, score, game_over, drop_counter, drop_speed,
    max_steps, ret, last, at_over, envs, call_log>>

Actions == 0..5

\* The fields of the instance a step call works on, as one record.
Cur ==
  [board |-> board, piece |-> current_piece, rot |-> current_rotation,
   x |-> current_x, y |-> current_y, lines_cleared |-> lines_cleared,
   pieces_placed |-> pieces_placed, score |-> score, game_over |-> game_over,
   locks |-> <<>>, at_over |-> at_over]

\* No call has been made on an instance of envs.
NoCalls == [n |-> 0, inst |-> 0]

NoSnapshot ==
  [board |-> EmptyBoard, score |-> 0, lines_cleared |-> 0, pieces_placed |-> 0]

NoLocals ==
  [action |-> 0, moved_horiz |-> FALSE, piece_locked |-> FALSE, drop |-> 0,
   fired |-> FALSE, cleared_now |-> 0, locks |-> <<>>,
   old_score |-> 0, old_steps |-> 0,
   mid |-> [piece |-> SHAPE_NAMES[1], rot |-> 0, x |-> 0, y |-> 0]]

(* ---------------- reset ---------------- *)

\* reset without lines 121-122: game_over and drop_counter keep their values.
ResetToKeepOver(kind) ==
  LET s == [Cur EXCEPT !.board = EmptyBoard, !.piece = kind, !.rot = 0,
                       !.x = SpawnX, !.y = 0, !.lines_cleared = 0,
                       !.pieces_placed = 0, !.score = 0]
  IN  /\ board' = EmptyBoard
      /\ current_piece' = kind
      /\ current_rotation' = 0
      /\ current_x' = SpawnX
      /\ current_y' = 0
      /\ steps' = 0
      /\ lines_cleared' = 0
      /\ pieces_placed' = 0
      /\ score' = 0
      /\ UNCHANGED <<game_over, drop_counter>>
      /\ ret' = [call |-> "reset", obs |-> GetObs(s), reward |-> 0,
                 terminated |-> FALSE, truncated |-> FALSE, info |-> GetInfo(s)]
      /\ last' = NoLocals
      /\ at_over' = NoSnapshot
      /\ UNCHANGED <<envs, call_log>>

\* reset(); kind is the piece drawn by _spawn_piece. reset returns (obs, info)
\* only: reward, terminated and truncated of ret are fillers.
ResetTo(kind) ==
  LET s == [Cur EXCEPT !.board = EmptyBoard, !.piece = kind, !.rot = 0,
                       !.x = SpawnX, !.y = 0, !.lines_cleared = 0,
                       !.pieces_placed = 0, !.score = 0, !.game_over = FALSE]
  IN  /\ board' = EmptyBoard
      /\ current_piece' = kind
      /\ current_rotation' = 0
      /\ current_x' = SpawnX
      /\ current_y' = 0
      /\ steps' = 0
      /\ lines_cleared' = 0
      /\ pieces_placed' = 0
      /\ score' = 0
      /\ game_over' = FALSE
      /\ drop_counter' = 0
      /\ ret' = [call |-> "reset", obs |-> GetObs(s), reward |-> 0,
                 terminated |-> FALSE, truncated |-> FALSE, info |-> GetInfo(s)]
      /\ last' = NoLocals
      /\ at_over' = NoSnapshot
      /\ UNCHANGED <<envs, call_log>>

\* __init__: stores int(drop_speed) and max_steps as given, without testing
\* them, then calls reset.
Construct(speed) ==
  /\ drop_speed = speed
  /\ max_steps = MaxStepsCfg
  /\ envs = <<>>
  /\ call_log = NoCalls
  /\ \E kind \in Drawn :
       /\ board = EmptyBoard
       /\ current_piece = kind
       /\ current_rotation = 0
       /\ current_x = SpawnX
       /\ current_y = 0
       /\ steps = 0
       /\ lines_cleared = 0
       /\ pieces_placed = 0
       /\ score = 0
       /\ game_over = FALSE
       /\ drop_counter = 0
       /\ at_over = NoSnapshot
       /\ last = NoLocals
       /\ ret = [call |-> "reset",
                 obs |-> <<0, 0, 0, 0, 0>> \o OneHot(kind),
                 reward |-> 0, terminated |-> FALSE, truncated |-> FALSE,
                 info |-> [lines_cleared |-> 0, pieces_placed |-> 0,
                           max_height |-> 0, holes |-> 0, score |-> 0,
                           current_y |-> 0]]

\* Construction with a positive gravity threshold.
Init == \E speed \in 1..MaxDropSpeed : Construct(speed)

\* reset that puts drop_speed back to a default of 1.
ResetDefaultSpeed ==
  /\ \E kind \in Drawn : ResetTo(kind)
  /\ drop_speed' = 1
  /\ UNCHANGED max_steps

Reset ==
  /\ \E kind \in Drawn : ResetTo(kind)
  /\ UNCHANGED <<drop_speed, max_steps>>

(* ---------------- step ---------------- *)

\* The descent of the hard drop with "if" for "while": one row at most.
DropRowsOnce(s, y) ==
  IF CanMove(s.board, s.piece, s.x, y + 1, s.rot) THEN 1 ELSE 0

\* A descent loop that does not test the placement: it runs until the anchor
\* row has left the board.
RECURSIVE DropRowsPastFloor(_, _)
DropRowsPastFloor(s, y) ==
  IF y < BOARD_HEIGHT THEN 1 + DropRowsPastFloor(s, y + 1) ELSE 0

\* The while loop of the hard drop: the number of rows descended.
RECURSIVE DropRows(_, _)
DropRows(s, y) ==
  IF CanMove(s.board, s.piece, s.x, y + 1, s.rot)
    THEN 1 + DropRows(s, y + 1)
    ELSE 0

\* Respawns that also pick the spawn column at random, outside the seeded
\* draw of the kind.
RespawnsAnyColumn(s) ==
  UNION {{SpawnNextPiece(s, kind),
          [SpawnNextPiece(s, kind) EXCEPT !.x = @ + 1]} : kind \in Drawn}

\* Respawns in which the spawn after a lock may also be skipped.
RespawnsOrSkips(s) == {SpawnNextPiece(s, kind) : kind \in Drawn} \cup {s}

\* The respawns _spawn_next_piece can make after a lock: one per kind that
\* _spawn_piece can draw.
Respawns(s) == {SpawnNextPiece(s, kind) : kind \in Drawn}

\* What the ACTIONS block yields when the action changes nothing.
NoEffect(s) ==
  [s |-> s, reward |-> 0, moved_horiz |-> FALSE, piece_locked |-> FALSE,
   drop |-> 0]

\* action == 0 without the _can_move test of line 145.
MoveLeftUnchecked(s) ==
  {[NoEffect(s) EXCEPT !.s = [s EXCEPT !.x = @ - 1], !.moved_horiz = TRUE]}

\* action == 0 that also lifts the piece one row when it is below the top.
MoveLeftLifting(s) ==
  IF CanMove(s.board, s.piece, s.x - 1, s.y, s.rot)
    THEN {[NoEffect(s) EXCEPT
             !.s = [s EXCEPT !.x = @ - 1,
                             !.y = IF @ > 0 THEN @ - 1 ELSE @],
             !.moved_horiz = TRUE]}
    ELSE {NoEffect(s)}

\* action == 0: one column to the left if that placement validates.
MoveLeft(s) ==
  IF CanMove(s.board, s.piece, s.x - 1, s.y, s.rot)
    THEN {[NoEffect(s) EXCEPT !.s = [s EXCEPT !.x = @ - 1],
                              !.moved_horiz = TRUE]}
    ELSE {NoEffect(s)}

\* action == 1 with the placement test of action == 0 (x - 1 for x + 1).
MoveRightTestingLeft(s) ==
  IF CanMove(s.board, s.piece, s.x - 1, s.y, s.rot)
    THEN {[NoEffect(s) EXCEPT !.s = [s EXCEPT !.x = @ + 1],
                              !.moved_horiz = TRUE]}
    ELSE {NoEffect(s)}

\* action == 1: one column to the right if that placement validates.
MoveRight(s) ==
  IF CanMove(s.board, s.piece, s.x + 1, s.y, s.rot)
    THEN {[NoEffect(s) EXCEPT !.s = [s EXCEPT !.x = @ + 1],
                              !.moved_horiz = TRUE]}
    ELSE {NoEffect(s)}

\* action == 2 / 3 without the _can_move test of lines 152 and 156.
RotateUnchecked(s, dir) ==
  {[NoEffect(s) EXCEPT !.s = [s EXCEPT !.rot = (s.rot + dir) % 4]]}

\* action == 2 (dir = 1) and action == 3 (dir = -1): nr = (rotation + dir) % 4,
\* taken if it validates at the unchanged anchor.
Rotate(s, dir) ==
  LET nr == (s.rot + dir) % 4
  IN  IF CanMove(s.board, s.piece, s.x, s.y, nr)
        THEN {[NoEffect(s) EXCEPT !.s = [s EXCEPT !.rot = nr]]}
        ELSE {NoEffect(s)}

\* action == 3 that also writes the piece's tag into the top-left board cell.
SoftDropMarking(s) ==
  IF CanMove(s.board, s.piece, s.x, s.y + 1, s.rot)
    THEN {[NoEffect(s) EXCEPT
             !.s = [s EXCEPT !.y = @ + 1, !.board[1][1] = Pid(s.piece)],
             !.reward = 1,
             !.drop = 1]}
    ELSE {NoEffect(s)}

\* action == 4: one row down, with its 0.05, if that placement validates.
SoftDrop(s) ==
  IF CanMove(s.board, s.piece, s.x, s.y + 1, s.rot)
    THEN {[NoEffect(s) EXCEPT !.s = [s EXCEPT !.y = @ + 1], !.reward = 1,
                              !.drop = 1]}
    ELSE {NoEffect(s)}

\* action == 5 without lines 168-170: the piece descends and is paid for it,
\* and the lock is left to gravity.
HardDropNoLock(s) ==
  LET drop == DropRows(s, s.y)
  IN  {[NoEffect(s) EXCEPT !.s = [s EXCEPT !.y = @ + drop],
                           !.reward = drop,
                           !.drop = drop]}

\* action == 5 that also drops and locks the piece it has just spawned.
HardDropTwice(s) ==
  LET drop == DropRows(s, s.y)
      landed == [s EXCEPT !.y = @ + drop]
  IN  UNION {{[NoEffect(s) EXCEPT !.s = u,
                                  !.reward = drop,
                                  !.piece_locked = TRUE,
                                  !.drop = drop]
                : u \in Respawns(LockPiece([t EXCEPT !.y = @ + DropRows(t, t.y)]))}
              : t \in Respawns(LockPiece(landed))}

\* action == 5: descend while the next row validates, 0.05 per row, then
\* _lock_piece and _spawn_next_piece; one outcome per piece the respawn draws.
HardDrop(s) ==
  LET drop == DropRows(s, s.y)
      landed == [s EXCEPT !.y = @ + drop]
  IN  {[NoEffect(s) EXCEPT !.s = t,
                           !.reward = drop,
                           !.piece_locked = TRUE,
                           !.drop = drop] : t \in Respawns(LockPiece(landed))}

\* The ACTIONS block of step: the outcomes of one action. reward is the part of
\* the reward added inside the block.
ActionPhase(s, action) ==
  CASE action = 0 -> MoveLeft(s)
    [] action = 1 -> MoveRight(s)
    [] action = 2 -> Rotate(s, 1)
    [] action = 3 -> Rotate(s, 0 - 1)
    [] action = 4 -> SoftDrop(s)
    [] action = 5 -> HardDrop(s)
    [] OTHER -> {NoEffect(s)}

\* The gravity tick without its else branch (lines 178-181): a piece that
\* cannot descend is left where it is.
GravityPhaseNoLock(s) ==
  IF CanMove(s.board, s.piece, s.x, s.y + 1, s.rot)
    THEN {[s |-> [s EXCEPT !.y = @ + 1], piece_locked |-> FALSE]}
    ELSE {[s |-> s, piece_locked |-> FALSE]}

\* The body of "if self.drop_counter >= self.drop_speed" in the GRAVITY block:
\* its outcomes, one per piece the respawn can draw.
GravityPhase(s) ==
  IF CanMove(s.board, s.piece, s.x, s.y + 1, s.rot)
    THEN {[s |-> [s EXCEPT !.y = @ + 1], piece_locked |-> FALSE]}
    ELSE {[s |-> t, piece_locked |-> TRUE] : t \in Respawns(LockPiece(s))}

BonusTable == <<0, 100, 300, 700, 1500>>

\* The potential with the hole weight 1.0 for 10.0.
Phi20LightHoles(b) == 0 - (20 * CountHoles(b) + 10 * Bumpiness(b) + 5 * AggHeight(b))

\* phi(s) = -(10*holes + 0.5*bump + 0.25*agg_height), times 20.
Phi20(b) == 0 - (200 * CountHoles(b) + 10 * Bumpiness(b) + 5 * AggHeight(b))

\* The truncation test written with > in place of >=.
TruncatedStrict(n, limit) == n > limit

\* truncated = self.steps >= self.max_steps
Truncated(n, limit) == n >= limit

\* The reward without the terminal penalty of lines 211-212.
Reward20NoTerminal(action, a, piece_locked, cleared_now, oldb, newb, over) ==
    a.reward
  + (IF cleared_now > 0 THEN 20 * BonusTable[Min2(cleared_now, 4) + 1] ELSE 0)
  + (IF a.moved_horiz THEN 1 ELSE 0)
  + (IF action \in {2, 3} THEN 1 ELSE 0)
  + (IF piece_locked
       THEN (Phi20(newb) - Phi20(oldb)) - 2 * MaxHeight(newb)
       ELSE 0)

\* The reward with the test of line 202 left out: the potential difference and
\* the height penalty are applied on every step.
Reward20EveryStep(action, a, piece_locked, cleared_now, oldb, newb, over) ==
    a.reward
  + (IF cleared_now > 0 THEN 20 * BonusTable[Min2(cleared_now, 4) + 1] ELSE 0)
  + (IF a.moved_horiz THEN 1 ELSE 0)
  + (IF action \in {2, 3} THEN 1 ELSE 0)
  + (Phi20(newb) - Phi20(oldb)) - 2 * MaxHeight(newb)
  - (IF over THEN 2000 ELSE 0)

\* The REWARD FUNCTION block of step and the terminal penalty, times 20. a is
\* the outcome of the ACTIONS block, oldb and newb the boards before the action
\* and at the end of the call.
Reward20(action, a, piece_locked, cleared_now, oldb, newb, over) ==
    a.reward
  + (IF cleared_now > 0 THEN 20 * BonusTable[Min2(cleared_now, 4) + 1] ELSE 0)
  + (IF a.moved_horiz THEN 1 ELSE 0)
  + (IF action \in {2, 3} THEN 1 ELSE 0)
  + (IF piece_locked
       THEN (Phi20(newb) - Phi20(oldb)) - 2 * MaxHeight(newb)
       ELSE 0)
  - (IF over THEN 2000 ELSE 0)

\* The body of step(action) on a live episode: its outcomes, one per sequence
\* of pieces its respawns can draw. old holds the fields of the instance
\* before the call; the locals of the code keep their names.
StepOutcomes(old, action, counter_in, speed, steps_in, limit) ==
  UNION {
    LET counter == counter_in + 1
        fired == counter >= speed
    IN  { LET new == g.s
              piece_locked == a.piece_locked \/ g.piece_locked
              cleared_now == new.lines_cleared - old.lines_cleared
          IN  [new |-> new,
               drop_counter |-> IF fired THEN 0 ELSE counter,
               steps |-> steps_in + 1,
               ret |-> [call |-> "step", obs |-> GetObs(new),
                        reward |-> Reward20(action, a, piece_locked,
                                            cleared_now, old.board,
                                            new.board, new.game_over),
                        terminated |-> new.game_over,
                        truncated |-> Truncated(steps_in + 1, limit),
                        info |-> GetInfo(new)],
               last |-> [action |-> action, moved_horiz |-> a.moved_horiz,
                         piece_locked |-> piece_locked, drop |-> a.drop,
                         fired |-> fired, cleared_now |-> cleared_now,
                         locks |-> new.locks,
                         old_score |-> old.score, old_steps |-> steps_in,
                         mid |-> [piece |-> a.s.piece, rot |-> a.s.rot,
                                  x |-> a.s.x, y |-> a.s.y]]]
          : g \in (IF fired THEN GravityPhase(a.s)
                            ELSE {[s |-> a.s, piece_locked |-> FALSE]}) }
    : a \in ActionPhase(old, action) }

\* step(action) on a live episode that has made fewer than cap steps: one of
\* the outcomes of the call becomes the state of the instance.
StepLiveTo(action, cap) ==
  /\ ~game_over
  /\ steps < cap
  /\ \E o \in StepOutcomes(Cur, action, drop_counter, drop_speed, steps,
                            max_steps) :
         /\ board' = o.new.board
         /\ current_piece' = o.new.piece
         /\ current_rotation' = o.new.rot
         /\ current_x' = o.new.x
         /\ current_y' = o.new.y
         /\ lines_cleared' = o.new.lines_cleared
         /\ pieces_placed' = o.new.pieces_placed
         /\ score' = o.new.score
         /\ game_over' = o.new.game_over
         /\ at_over' = o.new.at_over
         /\ drop_counter' = o.drop_counter
         /\ steps' = o.steps
         /\ ret' = o.ret
         /\ last' = o.last
  /\ UNCHANGED <<drop_speed, max_steps, envs, call_log>>

\* step(action) on a live episode, within the episode length explored.
StepLive(action) == StepLiveTo(action, StepCap)

\* The early return handing out the terminal penalty again.
StepOverPenalised(action) ==
  /\ game_over
  /\ ret' = [call |-> "step", obs |-> GetObs(Cur), reward |-> 0 - 2000,
             terminated |-> TRUE, truncated |-> FALSE, info |-> GetInfo(Cur)]
  /\ last' = [NoLocals EXCEPT !.old_score = score, !.old_steps = steps]
  /\ UNCHANGED <<board, current_piece, current_rotation, current_x, current_y,
                 steps, lines_cleared, pieces_placed, score, game_over,
                 drop_counter, drop_speed, max_steps, at_over, envs, call_log>>

\* step(action) when game_over is already set: the early return.
StepOver(action) ==
  /\ game_over
  /\ ret' = [call |-> "step", obs |-> GetObs(Cur), reward |-> 0,
             terminated |-> TRUE, truncated |-> FALSE, info |-> GetInfo(Cur)]
  /\ last' = [NoLocals EXCEPT !.old_score = score, !.old_steps = steps]
  /\ UNCHANGED <<board, current_piece, current_rotation, current_x, current_y,
                 steps, lines_cleared, pieces_placed, score, game_over,
                 drop_counter, drop_speed, max_steps, at_over, envs, call_log>>

Step ==
  \/ \E action \in Actions : StepLive(action)
  \/ \E action \in Actions : StepOver(action)

Next == Step \/ Reset

Spec == Init /\ [][Next]_vars

\* The drop_speed arguments a caller can pass: any integer, here down to -1.
DropSpeedArgs == (0 - 1)..MaxDropSpeed

\* Construction with any of these arguments, followed by the same calls.
InitAnySpeed == \E speed \in DropSpeedArgs : Construct(speed)

SpecAnySpeed == InitAnySpeed /\ [][Next]_vars

\* The same calls on episodes of up to LongStepCap live steps.
StepLong ==
  \/ \E action \in Actions : StepLiveTo(action, LongStepCap)
  \/ \E action \in Actions : StepOver(action)

NextLong == StepLong \/ Reset

SpecLong == Init /\ [][NextLong]_vars


(* ---------------- claims ---------------- *)

\* The rows of a board that are not fully occupied, top to bottom.
Survivors(b) == SelectSeq(b, LAMBDA row : \E c \in 1..BOARD_WIDTH : row[c] = 0)

\* C1. Full-row elimination: the board left by every lock operation of a step
\* call has no fully occupied row, hence no state between step calls shows a
\* board row whose cells are all non-empty.
C1_FullRowElimination ==
  /\ \A n \in DOMAIN last.locks : FullRows(last.locks[n].post) = {}
  /\ FullRows(board) = {}

\* C2. Row compaction: if n rows are full when a piece locks, the board after
\* the clear is n empty rows followed by exactly the rows that were not full,
\* unchanged and in their original order (height rows in all).
C2_RowCompaction ==
  \A n \in DOMAIN last.locks :
    LET pre == last.locks[n].pre
        post == last.locks[n].post
        full == Cardinality(FullRows(pre))
    IN  /\ Len(post) = BOARD_HEIGHT
        /\ post = [i \in 1..full |-> ZeroRow] \o Survivors(pre)


\* C3. Active-piece validity: between step calls, while game_over is false,
\* every cell of the active piece has its column in [0, width) and its row
\* below height, and none with row >= 0 lies on an occupied board cell.
C3_ActivePieceValid ==
  ~game_over =>
    \A c \in Cells(current_piece, current_rotation) :
      /\ 0 <= current_x + c[2]
      /\ current_x + c[2] < BOARD_WIDTH
      /\ current_y + c[1] < BOARD_HEIGHT
      /\ (current_y + c[1] >= 0 =>
            At(board, current_y + c[1], current_x + c[2]) = 0)

\* A live piece that was respawned by a lock of the last step and then moved
\* down by gravity above a non-empty board.
C3_Witness ==
  /\ ~game_over
  /\ ret.call = "step"
  /\ last.piece_locked
  /\ last.fired
  /\ current_y = 1
  /\ board # EmptyBoard

\* C4. Exact score increment: across a step call the score rises by the table
\* value {0:0, 1:100, 2:300, 3:500, 4+:800} at min(r, 4), r being the number
\* of rows cleared during that call.
C4_ExactScoreIncrement ==
  ret.call = "step" =>
    score - last.old_score = ScoreTable[Min2(last.cleared_now, 4) + 1]

\* C5. Game-over board is preserved: once game_over is set, the board, score,
\* lines_cleared and pieces_placed stay what they were at that moment, also
\* through the gravity tick that follows in the same step call.
C5_GameOverBoardPreserved ==
  game_over =>
    /\ board = at_over.board
    /\ score = at_over.score
    /\ lines_cleared = at_over.lines_cleared
    /\ pieces_placed = at_over.pieces_placed

\* C6. Step after game over is a no-op: a step call that starts with game_over
\* set leaves board, piece and counters unchanged and returns reward 0,
\* terminated and the observation of the previous return.
C6_StepAfterGameOverNoop ==
  [][(game_over /\ ret'.call = "step") =>
       /\ UNCHANGED <<board, current_piece, current_rotation, current_x,
                      current_y, steps, drop_counter, score, lines_cleared,
                      pieces_placed>>
       /\ ret'.reward = 0
       /\ ret'.terminated
       /\ ret'.obs = ret.obs]_vars

\* A step call was made on an episode that was already over.
C6_Witness ==
  /\ game_over
  /\ ret.call = "step"
  /\ last.old_steps = steps
  /\ ret.reward = 0
  /\ ret.terminated

\* C7. Step after truncation is a no-op: after a step call returned truncated
\* without game over, a further step call changes neither board, piece nor
\* counters and returns the last observation, reward 0 and truncated.
C7_StepAfterTruncationNoop ==
  [][(~game_over /\ ret.call = "step" /\ ret.truncated /\ ret'.call = "step") =>
       /\ UNCHANGED <<board, current_piece, current_rotation, current_x,
                      current_y, steps, drop_counter, score, lines_cleared,
                      pieces_placed>>
       /\ ret'.reward = 0
       /\ ret'.truncated
       /\ ret'.obs = ret.obs]_vars

\* C8. Termination exclusivity: a step call that returns while
\* steps >= max_steps reports terminated or truncated.
C8_TerminationExclusivity ==
  (ret.call = "step" /\ steps >= max_steps) =>
    (ret.terminated \/ ret.truncated)

\* A live step call returned with steps at the limit and reported truncated
\* without terminated.
C8_Witness ==
  /\ ret.call = "step"
  /\ steps >= max_steps
  /\ ~game_over
  /\ last.old_steps < steps
  /\ ret.truncated
  /\ ~ret.terminated

\* C9. Truncation is orthogonal to game over: every step call that returns
\* while steps >= max_steps reports truncated, game over or not.
C9_TruncationOrthogonal ==
  (ret.call = "step" /\ steps >= max_steps) => ret.truncated

\* The respawn that followed the n-th lock of the last step call found its
\* piece (rotation 0, spawn anchor) unplaceable.
SpawnBlocked(n) ==
  ~CanMove(last.locks[n].post, last.locks[n].spawned, SpawnX, 0, 0)

LiveStep == ~game_over /\ ret'.call = "step"

\* The last return is that of a step call that ran the whole body of step.
LiveReturn == ret.call = "step" /\ last.old_steps < steps

\* The current piece cannot move left: one of its cells is at column 0 or has
\* an occupied board cell to its left.
LeftBlocked ==
  \E c \in Cells(current_piece, current_rotation) :
    \/ current_x + c[2] = 0
    \/ At(board, current_y + c[1], current_x + c[2] - 1) # 0

\* C11. Illegal-move no-op: a step with action move_left taken when the piece
\* cannot move left leaves x, rotation and every board cell unchanged at the
\* end of that step.
C11_IllegalMoveNoop ==
  [][(LiveStep /\ last'.action = 0 /\ LeftBlocked) =>
       UNCHANGED <<current_x, current_rotation, board>>]_vars

\* C11, amended. A step with action move_left taken when the piece cannot move
\* left leaves the piece as it was through the action phase, and leaves x,
\* rotation and every board cell unchanged at the end of that step unless the
\* gravity tick of that step locked the piece.
C11_IllegalMoveNoopUnlessLocked ==
  [][(LiveStep /\ last'.action = 0 /\ LeftBlocked) =>
       /\ last'.mid = [piece |-> current_piece, rot |-> current_rotation,
                       x |-> current_x, y |-> current_y]
       /\ ~last'.moved_horiz
       /\ (pieces_placed' = pieces_placed =>
             UNCHANGED <<current_x, current_rotation, board>>)]_vars

\* A move_left of a piece that stands against the left wall has returned: the
\* piece is where it was but for the row gravity took it down.
C11_Witness ==
  /\ LiveReturn
  /\ last.action = 0
  /\ ~last.moved_horiz
  /\ ~last.piece_locked
  /\ last.fired
  /\ \E c \in Cells(current_piece, current_rotation) : current_x + c[2] = 0

\* The potential of a board, times 20: -(10 holes + 0.5 bumpiness
\* + 0.25 aggregate height).
Potential20(b) == 0 - (200 * CountHoles(b) + 10 * Bumpiness(b) + 5 * AggHeight(b))

\* The bonus for r rows cleared in one step, times 20.
ClearBonus20(r) ==
  CASE r <= 0 -> 0
    [] r = 1 -> 2000
    [] r = 2 -> 6000
    [] r = 3 -> 14000
    [] OTHER -> 30000

\* What the step being taken adds to the reward because a piece locked in it:
\* the potential difference of the boards around it less 0.10 per row of the
\* tallest column afterwards.
LockTerms20 ==
  IF pieces_placed' > pieces_placed
    THEN Potential20(board') - Potential20(board) - 2 * MaxHeight(board')
    ELSE 0

\* The movement-nudge part of the reward of the live step being taken: the
\* reward less the line-clear bonus and the lock terms, plus the terminal
\* penalty.
NudgePart20 ==
  ret'.reward - ClearBonus20(lines_cleared' - lines_cleared) - LockTerms20
    + (IF game_over' THEN 2000 ELSE 0)

\* C12. Soft-drop incentive: every step whose action is soft_drop adds the 0.05
\* movement incentive to the reward, whether or not the piece moved down.
C12_SoftDropIncentive ==
  [][(LiveStep /\ last'.action = 4) => NudgePart20 = 1]_vars

\* The lowest row of its 4x4 mask that the current piece occupies.
LowestMaskRow ==
  SetMax({c[1] : c \in Cells(current_piece, current_rotation)})

\* A hard drop is being taken with the piece's anchor at row 0 over an empty
\* board.
HardDropFromTop ==
  LiveStep /\ last'.action = 5 /\ board = EmptyBoard /\ current_y = 0

\* C13. Hard-drop distance: hard-dropping a piece whose anchor is at row 0
\* over an empty board of BOARD_HEIGHT rows descends BOARD_HEIGHT - 1 rows (19
\* of 20) and adds that many times 0.05 to the movement-nudge part of the
\* reward.
C13_HardDropDistance ==
  [][HardDropFromTop =>
       /\ last'.drop = BOARD_HEIGHT - 1
       /\ NudgePart20 = BOARD_HEIGHT - 1]_vars

\* C13, amended. Hard-dropping a piece whose anchor is at row 0 over an empty
\* board descends BOARD_HEIGHT - 1 - r rows, r being the lowest occupied row of
\* the piece's rotation mask (r = 1 at the spawn rotation: 18 of 20), comes to
\* rest with that row on the floor and adds that many times 0.05 to the
\* movement-nudge part of the reward.
C13_HardDropDistanceToFloor ==
  [][HardDropFromTop =>
       /\ last'.drop = BOARD_HEIGHT - 1 - LowestMaskRow
       /\ last'.locks[1].pre =
            Merge(EmptyBoard, current_piece, current_rotation, current_x,
                  BOARD_HEIGHT - 1 - LowestMaskRow)
       /\ NudgePart20 = BOARD_HEIGHT - 1 - LowestMaskRow]_vars

\* The first step of an episode was a hard drop: the piece fell from row 0
\* through the empty board and its descent was paid.
C13_Witness ==
  /\ LiveReturn
  /\ last.action = 5
  /\ last.old_steps = 0
  /\ last.drop = BOARD_HEIGHT - 2
  /\ board # EmptyBoard

\* The placement of a piece of this kind and rotation with its anchor at
\* (x, y) validates on board b: every cell has its column in [0, width), its
\* row below height, and is on no occupied cell if its row is >= 0.
Validates(b, kind, x, y, rotation) ==
  \A c \in Cells(kind, rotation) :
    /\ 0 <= x + c[2]
    /\ x + c[2] < BOARD_WIDTH
    /\ y + c[1] < BOARD_HEIGHT
    /\ (y + c[1] >= 0 => At(b, y + c[1], x + c[2]) = 0)

\* C14. Hard drop: a hard_drop moves the piece down by d rows, d the largest
\* number such that every placement at y+1 .. y+d validates (x and rotation
\* unchanged), adds d x 0.05 to the reward, then locks the piece at that
\* resting position and respawns in the same step, whatever the gravity
\* counter is.
C14_HardDrop ==
  [][(LiveStep /\ last'.action = 5) =>
       LET d == last'.drop
       IN  /\ \A k \in 1..d :
                Validates(board, current_piece, current_x, current_y + k,
                          current_rotation)
           /\ ~Validates(board, current_piece, current_x, current_y + d + 1,
                         current_rotation)
           /\ NudgePart20 = d
           /\ last'.piece_locked
           /\ Len(last'.locks) >= 1
           /\ last'.locks[1].pre =
                Merge(board, current_piece, current_rotation, current_x,
                      current_y + d)
           /\ pieces_placed' >= pieces_placed + 1
           /\ last'.mid = [piece |-> last'.locks[1].spawned, rot |-> 0,
                            x |-> SpawnX, y |-> 0]]_vars

\* A hard drop on a step whose gravity tick did not fire: the second piece of
\* the episode descended, was locked, which cleared rows, and the next one
\* spawned.
C14_Witness ==
  /\ LiveReturn
  /\ last.action = 5
  /\ ~last.fired
  /\ last.drop >= 1
  /\ Len(last.locks) = 1
  /\ last.locks[1].pre # last.locks[1].post
  /\ pieces_placed >= 2
  /\ ~game_over

\* The nudges of the live step being taken: 0.05 for a horizontal move that
\* succeeded, 0.05 for a rotation action, 0.05 per row of a soft or hard drop.
Nudges20 ==
    (IF last'.moved_horiz THEN 1 ELSE 0)
  + (IF last'.action \in {2, 3} THEN 1 ELSE 0)
  + last'.drop

\* The line-clear part of the reward of the live step being taken: the reward
\* less the nudges and the lock terms, plus the terminal penalty.
BonusPart20 ==
  ret'.reward - Nudges20 - LockTerms20 + (IF game_over' THEN 2000 ELSE 0)

\* The step being taken locks one piece, and that piece completes exactly one
\* row.
CompletesSingleRow ==
  /\ Len(last'.locks) = 1
  /\ Cardinality(FullRows(last'.locks[1].pre) \ FullRows(board)) = 1

\* C15. Line-clear reward bonus: a step in which r >= 1 rows were cleared adds
\* exactly {1:100, 2:300, 3:700, 4+:1500} at min(r, 4) to the reward and a step
\* with no cleared row adds no bonus; in particular completing a single row
\* raises lines_cleared by 1, score by 100 and the reward by the bonus 100.
C15_LineClearBonus ==
  [][LiveStep =>
       /\ BonusPart20 = ClearBonus20(lines_cleared' - lines_cleared)
       /\ (CompletesSingleRow =>
             /\ lines_cleared' = lines_cleared + 1
             /\ score' = score + 100
             /\ BonusPart20 = 2000)]_vars

\* C16. Reward on a non-locking step: a step in which no piece locks returns
\* exactly the sum of the nudges: 0.05 if a horizontal move succeeded, 0.05 if
\* the action is a rotation (whether or not the rotation changed), 0.05 per
\* row descended by a soft drop; no potential term, no height penalty and no
\* other penalty.
C16_RewardNonLockingStep ==
  [][(LiveStep /\ pieces_placed' = pieces_placed) =>
       ret'.reward =
           (IF last'.action \in {0, 1} /\ last'.mid.x # current_x
              THEN 1 ELSE 0)
         + (IF last'.action \in {2, 3} THEN 1 ELSE 0)
         + (IF last'.action = 4 THEN last'.mid.y - current_y ELSE 0)]_vars

\* A rotation action returned exactly 0.05 over a board with locked cells,
\* without locking the piece.
C16_Witness ==
  /\ LiveReturn
  /\ ~last.piece_locked
  /\ last.locks = <<>>
  /\ last.action \in {2, 3}
  /\ board # EmptyBoard
  /\ MaxHeight(board) >= 1
  /\ ret.reward = 1

C19_ScoreMonotone ==
  [][ret'.call = "step" =>
       /\ score' >= score
       /\ lines_cleared' >= lines_cleared
       /\ (score' # score => lines_cleared' > lines_cleared)]_vars

\* A step has raised both the score and lines_cleared.
C19_Witness ==
  /\ LiveReturn
  /\ score > last.old_score
  /\ last.cleared_now >= 1
  /\ lines_cleared >= 1

\* C20. Horizontal move: the action phase of move_left / move_right changes x
\* by exactly -1 / +1 when the placement at the new x validates (same y and
\* rotation) and otherwise leaves x unchanged; it never changes rotation, y or
\* piece kind.
C20_HorizontalMove ==
  [][(LiveStep /\ last'.action \in {0, 1}) =>
       LET nx == IF last'.action = 0 THEN current_x - 1 ELSE current_x + 1
           ok == Validates(board, current_piece, nx, current_y,
                           current_rotation)
       IN  /\ last'.mid = [piece |-> current_piece,
                           rot |-> current_rotation,
                           x |-> IF ok THEN nx ELSE current_x,
                           y |-> current_y]
           /\ last'.moved_horiz = ok]_vars

\* A move_right beside locked cells has returned: the piece went one column to
\* the right of the spawn column and no piece locked in that step.
C20_Witness ==
  /\ LiveReturn
  /\ last.action = 1
  /\ last.moved_horiz
  /\ last.mid.x = SpawnX + 1
  /\ ~last.piece_locked
  /\ current_x = SpawnX + 1
  /\ board # EmptyBoard

(* ---------------- C21 .. C30: rotation, gravity, reset, lock ---------------- *)

\* C21. Rotation without wall kick: the action phase of rotate_cw / rotate_ccw
\* sets rotation to (rotation + 1) mod 4 / (rotation - 1) mod 4 when that
\* placement validates at the unchanged (x, y) and otherwise leaves it
\* unchanged; it never changes x or y, and rotation is always in {0,1,2,3}.
C21_RotationNoKick ==
  /\ [](current_rotation \in 0..3)
  /\ [][(LiveStep /\ last'.action \in {2, 3}) =>
          LET nr == IF last'.action = 2
                      THEN (current_rotation + 1) % 4
                      ELSE (current_rotation + 3) % 4
              ok == Validates(board, current_piece, current_x, current_y, nr)
          IN  last'.mid = [piece |-> current_piece,
                           rot |-> IF ok THEN nr ELSE current_rotation,
                           x |-> current_x,
                           y |-> current_y]]_vars

\* A rotate_ccw of a T has returned: its rotation went from 0 to 3 at the
\* spawn column and no piece locked in that step.
C21_Witness ==
  /\ LiveReturn
  /\ last.action = 3
  /\ last.mid = [piece |-> "T", rot |-> 3, x |-> SpawnX, y |-> last.mid.y]
  /\ current_piece = "T"
  /\ current_rotation = 3
  /\ ~last.piece_locked

\* The board as the ACTIONS block of the step being taken left it: that of
\* the hard drop's lock and clear, or the board before the step.
MidBoard == IF last'.action = 5 THEN last'.locks[1].post ELSE board

\* The number of locks the ACTIONS block of the step being taken made.
MidLocks == IF last'.action = 5 THEN 1 ELSE 0

\* C22. Gravity timing: the tick counter is incremented once on every live
\* step and gravity fires exactly on the steps where it reaches drop_speed,
\* after which it is 0; lock, respawn and hard drop do not reset it, so
\* between steps drop_counter = steps mod drop_speed and
\* 0 <= drop_counter < drop_speed. When gravity fires, the piece descends one
\* row if that placement validates and otherwise locks in that same step.
C22_GravityTiming ==
  /\ [](/\ drop_counter = steps % drop_speed
        /\ 0 <= drop_counter
        /\ drop_counter < drop_speed)
  /\ [][LiveStep =>
          /\ last'.fired = (drop_counter + 1 = drop_speed)
          /\ drop_counter' = IF last'.fired THEN 0 ELSE drop_counter + 1
          /\ (~last'.fired =>
                /\ Len(last'.locks) = MidLocks
                /\ current_y' = last'.mid.y)
          /\ (last'.fired =>
                IF Validates(MidBoard, last'.mid.piece, last'.mid.x,
                             last'.mid.y + 1, last'.mid.rot)
                  THEN /\ Len(last'.locks) = MidLocks
                       /\ current_y' = last'.mid.y + 1
                       /\ current_x' = last'.mid.x
                       /\ current_rotation' = last'.mid.rot
                       /\ current_piece' = last'.mid.piece
                       /\ board' = MidBoard
                  ELSE /\ Len(last'.locks) = MidLocks + 1
                       /\ last'.locks[MidLocks + 1].pre =
                            Merge(MidBoard, last'.mid.piece, last'.mid.rot,
                                  last'.mid.x, last'.mid.y)
                       /\ pieces_placed' = pieces_placed + MidLocks + 1)]_vars

\* With drop_speed 2 the second step of an episode fired gravity on the piece
\* that the hard drop of the first step had respawned; the piece could not
\* descend and was locked in that step.
C22_Witness ==
  /\ LiveReturn
  /\ drop_speed = 2
  /\ steps = 2
  /\ drop_counter = 0
  /\ last.fired
  /\ last.action # 5
  /\ Len(last.locks) = 1
  /\ pieces_placed = 2

\* The anchors step asks the validator about, and those on their other side:
\* one column to either side of the piece, one row below and one above (at
\* y = 0 a row above the board).
AnchorXs == (current_x - 1)..(current_x + 1)

AnchorYs == (current_y - 1)..(current_y + 1)

\* C23. Placement validator: on the current board, for the current kind, every
\* rotation and every anchor next to the piece, _can_move returns true exactly
\* when every set cell (i, j) of the rotation mask satisfies 0 <= x+j < width,
\* y+i < height and (y+i < 0 or board[y+i][x+j] is empty).
C23_PlacementValidator ==
  \A rotation \in 0..3 : \A x \in AnchorXs : \A y \in AnchorYs :
    CanMove(board, current_piece, x, y, rotation) =
      (\A c \in Cells(current_piece, rotation) :
         /\ 0 <= x + c[2]
         /\ x + c[2] < BOARD_WIDTH
         /\ y + c[1] < BOARD_HEIGHT
         /\ (y + c[1] < 0 \/ At(board, y + c[1], x + c[2]) = 0))

\* On a board with locked cells the validator accepts a placement partly above
\* the board and rejects one that is within bounds but on an occupied cell.
C23_Witness ==
  /\ LiveReturn
  /\ board # EmptyBoard
  /\ \E rotation \in 0..3 : \E x \in AnchorXs : \E y \in AnchorYs :
       /\ CanMove(board, current_piece, x, y, rotation)
       /\ \E c \in Cells(current_piece, rotation) : y + c[1] < 0
  /\ \E rotation \in 0..3 : \E x \in AnchorXs : \E y \in AnchorYs :
       /\ ~CanMove(board, current_piece, x, y, rotation)
       /\ CanMove(EmptyBoard, current_piece, x, y, rotation)

\* C24. Reset: after reset, called in any state, the board is empty, steps,
\* lines_cleared, pieces_placed, score and drop_counter are 0, game_over is
\* false, and the piece is legally placed at rotation 0, x = width/2 - 2,
\* y = 0; holes, bumpiness, aggregate height and max height of that board are
\* all 0, and so are the aggregates of the observation returned.
C24_Reset ==
  ret.call = "reset" =>
    /\ \A y \in 0..(BOARD_HEIGHT - 1) : \A x \in 0..(BOARD_WIDTH - 1) :
         At(board, y, x) = 0
    /\ steps = 0
    /\ lines_cleared = 0
    /\ pieces_placed = 0
    /\ score = 0
    /\ drop_counter = 0
    /\ ~game_over
    /\ current_rotation = 0
    /\ current_x = (BOARD_WIDTH \div 2) - 2
    /\ current_y = 0
    /\ Validates(board, current_piece, current_x, current_y, current_rotation)
    /\ CountHoles(board) = 0
    /\ Bumpiness(board) = 0
    /\ AggHeight(board) = 0
    /\ MaxHeight(board) = 0
    /\ SubSeq(ret.obs, 1, 5) = <<0, 0, 0, 0, 0>>

\* reset has returned with a T as the first piece of the episode (the
\* constructor ends with a reset call, and reset leads to the same states from
\* every other state).
C24_Witness ==
  /\ ret.call = "reset"
  /\ current_piece = "T"
  /\ board = EmptyBoard
  /\ last = NoLocals

\* C25. Reset keeps configuration: reset leaves drop_speed and max_steps
\* exactly as set at construction, and no step changes them, so gravity fires
\* with the same period in every episode of one instance.
C25_ResetKeepsConfiguration ==
  [][/\ (ret'.call = "reset" => UNCHANGED <<drop_speed, max_steps>>)
     /\ drop_speed' = drop_speed
     /\ max_steps' = max_steps]_vars

\* An instance constructed with the slowest gravity of the model stands right
\* after a reset with that drop_speed and its max_steps.
C25_Witness ==
  /\ ret.call = "reset"
  /\ steps = 0
  /\ drop_speed = MaxDropSpeed
  /\ max_steps = MaxStepsCfg

\* The pieces an outcome of step drew from the seeded generator, in order.
Draws(o) == [n \in 1..Len(o.last.locks) |-> o.last.locks[n].spawned]

C27_ConstructionValidation == (ret.call = "step") => drop_speed >= 1


\* C28. pieces_placed counts spawn attempts: a live step adds to pieces_placed
\* one for every lock it performs, each lock being followed by one spawn
\* attempt, legal or not; a step on an episode that is over leaves it unchanged
\* and reset puts it back to 0, the piece spawned by reset not being counted.
C28_PiecesPlaced ==
  [][/\ LiveStep => pieces_placed' = pieces_placed + Len(last'.locks)
     /\ (game_over /\ ret'.call = "step") => pieces_placed' = pieces_placed
     /\ (ret'.call = "reset") => pieces_placed' = 0]_vars

\* A live step has locked a piece and the spawn attempt that followed was
\* illegal: the episode is over and the attempt was counted.
C28_Witness ==
  /\ LiveReturn
  /\ game_over
  /\ Len(last.locks) >= 1
  /\ pieces_placed = at_over.pieces_placed
  /\ pieces_placed >= 2


\* C29. Board changes only at lock: every step call that leaves pieces_placed
\* unchanged, i.e. in which no piece locks, leaves every board cell unchanged,
\* whatever the action and whether or not gravity moved the piece.
C29_BoardChangesOnlyAtLock ==
  [][(ret'.call = "step" /\ pieces_placed' = pieces_placed) =>
       /\ Len(last'.locks) = 0
       /\ board' = board]_vars

\* A live step on a board that holds locked cells has moved the piece sideways
\* by its action and down by gravity, without locking it.
C29_Witness ==
  /\ LiveReturn
  /\ Len(last.locks) = 0
  /\ last.moved_horiz
  /\ last.fired
  /\ last.mid.y + 1 = current_y
  /\ board # EmptyBoard
  /\ pieces_placed >= 1


\* The board cells (row, column), 0-based, that the piece covers at (x, y).
Covered(kind, rotation, x, y) ==
  {<<y + c[1], x + c[2]>> : c \in Cells(kind, rotation)}

\* b is an array of BOARD_HEIGHT rows of BOARD_WIDTH cells holding 0 or a tag.
BoardShaped(b) ==
  /\ DOMAIN b = 1..BOARD_HEIGHT
  /\ \A r \in 1..BOARD_HEIGHT :
       /\ DOMAIN b[r] = 1..BOARD_WIDTH
       /\ \A c \in 1..BOARD_WIDTH : b[r][c] \in 0..Len(SHAPE_NAMES)

\* The merge of a legally placed piece took before to after: the piece covers
\* 4 cells of the board, they were empty and hold the kind's tag, and every
\* other cell is as it was.
MergedExactly(before, after, kind, rotation, x, y) ==
  CanMove(before, kind, x, y, rotation) =>
    /\ Cardinality(Covered(kind, rotation, x, y)) = 4
    /\ Covered(kind, rotation, x, y) \subseteq
         (0..(BOARD_HEIGHT - 1)) \X (0..(BOARD_WIDTH - 1))
    /\ Pid(kind) \in 1..7
    /\ BoardShaped(after)
    /\ \A r \in 1..BOARD_HEIGHT : \A c \in 1..BOARD_WIDTH :
         IF <<r - 1, c - 1>> \in Covered(kind, rotation, x, y)
           THEN before[r][c] = 0 /\ after[r][c] = Pid(kind)
           ELSE after[r][c] = before[r][c]

\* C30. Lock merge: locking a legally placed piece changes, before line
\* clearing, exactly the 4 board cells the piece covers from empty to the
\* kind's tag (1..7) and no other cell, for the lock of a hard drop and for
\* the lock made by gravity; the board always has BOARD_HEIGHT x BOARD_WIDTH
\* cells, so no cell outside it is ever written.
C30_LockMerge ==
  /\ [](BoardShaped(board) /\
        \A n \in DOMAIN last.locks :
          BoardShaped(last.locks[n].pre) /\ BoardShaped(last.locks[n].post))
  /\ [][LiveStep =>
          /\ last'.action = 5 =>
               MergedExactly(board, last'.locks[1].pre, current_piece,
                             current_rotation, current_x,
                             current_y + last'.drop)
          /\ Len(last'.locks) > MidLocks =>
               MergedExactly(MidBoard, last'.locks[Len(last'.locks)].pre,
                             last'.mid.piece, last'.mid.rot, last'.mid.x,
                             last'.mid.y)]_vars

\* A live step has locked a legally placed piece by hard drop, onto a board
\* that already held locked cells, and then a second legally placed piece by
\* gravity.
C30_Witness ==
  /\ LiveReturn
  /\ last.action = 5
  /\ last.drop >= 1
  /\ Len(last.locks) = 2
  /\ pieces_placed >= 3
  /\ CanMove(last.locks[1].post, last.mid.piece, last.mid.x, last.mid.y,
             last.mid.rot)


(* ---------------- two instances ---------------- *)

\* The state of a generator random.Random is a position in its output stream,
\* which repeats after as many draws as there are kinds drawn.
\* self._rnd.choice(SHAPE_NAMES) with the generator at position p.
Stream(p) == SHAPE_NAMES[(p % Min2(NumKinds, Len(SHAPE_NAMES))) + 1]

\* The generator after n more draws.
Advance(p, n) == (p + n) % Min2(NumKinds, Len(SHAPE_NAMES))

\* The seed arguments of reset: a seed puts the generator at the position
\* of that seed, NoSeed (seed=None) leaves the generator where it is.
NoSeed == 0 - 1

SeedArgs == {NoSeed, 0}

\* The fields reset assigns, with the piece drawn at generator position p.
FreshFields(p) ==
  [board |-> EmptyBoard, piece |-> Stream(p), rot |-> 0, x |-> SpawnX,
   y |-> 0, lines_cleared |-> 0, pieces_placed |-> 0, score |-> 0,
   game_over |-> FALSE, locks |-> <<>>, at_over |-> NoSnapshot]

\* The reward_mode arguments the training script offers.
RewardModes == {"standard", "aggressive", "shaped", "hybrid"}

\* What reset returns on fields s: (obs, info), the rest being fillers.
ResetReturn(s) ==
  [call |-> "reset", obs |-> GetObs(s), reward |-> 0, terminated |-> FALSE,
   truncated |-> FALSE, info |-> GetInfo(s)]

\* TetrisEnv(seed=seed, reward_mode=mode, drop_speed=speed): a new instance
\* with its own generator, seeded, from which reset has drawn the first
\* piece; ret is what its last call returned.
NewEnv(seed, speed, mode) ==
  [s |-> FreshFields(seed), steps |-> 0, drop_counter |-> 0,
   drop_speed |-> speed, max_steps |-> MaxStepsCfg, reward_mode |-> mode,
   rnd |-> Advance(seed, 1), ret |-> ResetReturn(FreshFields(seed))]

\* reset(seed=seed) on instance e.
ResetEnv(e, seed) ==
  LET p == IF seed = NoSeed THEN e.rnd ELSE seed
  IN  [e EXCEPT !.s = FreshFields(p), !.steps = 0, !.drop_counter = 0,
                !.rnd = Advance(p, 1), !.ret = ResetReturn(FreshFields(p))]

\* The outcomes of the step body on instance e whose respawns draw what the
\* generator of e yields next.
OutcomesOf(e, action) ==
  {q \in StepOutcomes(e.s, action, e.drop_counter, e.drop_speed, e.steps,
                      e.max_steps) :
     \A n \in 1..Len(q.last.locks) :
       q.last.locks[n].spawned = Stream(e.rnd + n - 1)}

\* step on an instance that doubles the reward in the aggressive mode.
StepEnvByMode(e, action) ==
  IF e.s.game_over
    THEN {[e EXCEPT !.ret = [call |-> "step", obs |-> GetObs(e.s),
                             reward |-> 0, terminated |-> TRUE,
                             truncated |-> FALSE, info |-> GetInfo(e.s)]]}
    ELSE {[e EXCEPT !.s = [o.new EXCEPT !.locks = <<>>],
                    !.steps = o.steps,
                    !.drop_counter = o.drop_counter,
                    !.rnd = Advance(@, Len(o.last.locks)),
                    !.ret = IF e.reward_mode = "aggressive"
                              THEN [o.ret EXCEPT !.reward = 2 * @]
                              ELSE o.ret]
            : o \in OutcomesOf(e, action)}

\* step(action) on instance e: the outcome of the step body whose respawns
\* draw what the generator of e yields next; the early return when the
\* episode of e is over.
StepEnv(e, action) ==
  IF e.s.game_over
    THEN {[e EXCEPT !.ret = [call |-> "step", obs |-> GetObs(e.s),
                             reward |-> 0, terminated |-> TRUE,
                             truncated |-> FALSE, info |-> GetInfo(e.s)]]}
    ELSE {[e EXCEPT !.s = [o.new EXCEPT !.locks = <<>>],
                    !.steps = o.steps,
                    !.drop_counter = o.drop_counter,
                    !.rnd = Advance(@, Len(o.last.locks)),
                    !.ret = o.ret]
            : o \in OutcomesOf(e, action)}

\* A reset that draws from a generator the two instances share: the draw
\* moves the other instance's position in the stream too.
ResetOnSharedGenerator(i, seed) ==
  /\ call_log.n < TwoCallCap
  /\ envs' = [j \in 1..2 |->
                IF j = i THEN ResetEnv(envs[j], seed)
                         ELSE [envs[j] EXCEPT !.rnd = Advance(@, 1)]]
  /\ call_log' = [n |-> call_log.n + 1, inst |-> i]
  /\ UNCHANGED <<board, current_piece, current_rotation, current_x, current_y,
                 steps, lines_cleared, pieces_placed, score, game_over,
                 drop_counter, drop_speed, max_steps, ret, last, at_over>>

\* envs[i].reset(seed=seed)
ResetOn(i, seed) ==
  /\ call_log.n < TwoCallCap
  /\ envs' = [envs EXCEPT ![i] = ResetEnv(@, seed)]
  /\ call_log' = [n |-> call_log.n + 1, inst |-> i]
  /\ UNCHANGED <<board, current_piece, current_rotation, current_x, current_y,
                 steps, lines_cleared, pieces_placed, score, game_over,
                 drop_counter, drop_speed, max_steps, ret, last, at_over>>

\* envs[i].step(action)
StepOn(i, action) ==
  /\ call_log.n < TwoCallCap
  /\ \E e \in StepEnv(envs[i], action) : envs' = [envs EXCEPT ![i] = e]
  /\ call_log' = [n |-> call_log.n + 1, inst |-> i]
  /\ UNCHANGED <<board, current_piece, current_rotation, current_x, current_y,
                 steps, lines_cleared, pieces_placed, score, game_over,
                 drop_counter, drop_speed, max_steps, ret, last, at_over>>

\* The instance of the single-instance variables, constructed and not called.
Uncalled ==
  /\ drop_speed = 1
  /\ max_steps = MaxStepsCfg
  /\ board = EmptyBoard
  /\ current_piece = SHAPE_NAMES[1]
  /\ current_rotation = 0
  /\ current_x = SpawnX
  /\ current_y = 0
  /\ steps = 0
  /\ lines_cleared = 0
  /\ pieces_placed = 0
  /\ score = 0
  /\ game_over = FALSE
  /\ drop_counter = 0
  /\ at_over = NoSnapshot
  /\ last = NoLocals
  /\ ret = [call |-> "reset", obs |-> GetObs(Cur), reward |-> 0,
            terminated |-> FALSE, truncated |-> FALSE, info |-> GetInfo(Cur)]

\* Two instances are constructed, with seeds 0 and 1 and gravity on every
\* step.
InitTwo ==
  /\ Uncalled
  /\ envs = <<NewEnv(0, 1, "hybrid"), NewEnv(1, 1, "hybrid")>>
  /\ call_log = NoCalls

\* Any interleaving of reset and step calls on the two instances.
NextTwo ==
  \/ \E i \in 1..2 : \E seed \in SeedArgs : ResetOn(i, seed)
  \/ \E i \in 1..2 : \E action \in Actions : StepOn(i, action)

SpecTwo == InitTwo /\ [][NextTwo]_vars

\* Both instances are reset with the same seed argument.
ResetBoth(seed) ==
  /\ call_log.n < TwoCallCap
  /\ envs' = [j \in 1..2 |-> ResetEnv(envs[j], seed)]
  /\ call_log' = [n |-> call_log.n + 1, inst |-> 0]
  /\ UNCHANGED <<board, current_piece, current_rotation, current_x, current_y,
                 steps, lines_cleared, pieces_placed, score, game_over,
                 drop_counter, drop_speed, max_steps, ret, last, at_over>>

\* Both instances are stepped with the same action.
StepBoth(action) ==
  /\ call_log.n < TwoCallCap
  /\ \E e1 \in StepEnv(envs[1], action) : \E e2 \in StepEnv(envs[2], action) :
       envs' = <<e1, e2>>
  /\ call_log' = [n |-> call_log.n + 1, inst |-> 0]
  /\ UNCHANGED <<board, current_piece, current_rotation, current_x, current_y,
                 steps, lines_cleared, pieces_placed, score, game_over,
                 drop_counter, drop_speed, max_steps, ret, last, at_over>>

\* Two instances are constructed with the same seed and drop_speed, the
\* first with the default reward mode and the second with another one.
InitModes ==
  /\ Uncalled
  /\ call_log = NoCalls
  /\ \E seed \in {0, 1} : \E speed \in 1..MaxDropSpeed :
       \E mode \in RewardModes \ {"hybrid"} :
         envs = <<NewEnv(seed, speed, "hybrid"), NewEnv(seed, speed, mode)>>

\* The two instances receive the same calls.
NextModes ==
  \/ \E seed \in SeedArgs : ResetBoth(seed)
  \/ \E action \in Actions : StepBoth(action)

SpecModes == InitModes /\ [][NextModes]_vars

(* ---------------- C31 .. C40: episode, observation, counters ---------------- *)

\* The piece a spawn attempt of kind puts in play.
SpawnedPiece(kind) == [piece |-> kind, rot |-> 0, x |-> SpawnX, y |-> 0]

\* The active piece of the state the step being taken leads to.
PieceAfter ==
  [piece |-> current_piece', rot |-> current_rotation', x |-> current_x',
   y |-> current_y']

C32_StepTerminates ==
  /\ [](~game_over =>
          /\ DropRows(Cur, current_y) \in 0..(BOARD_HEIGHT - 1)
          /\ current_y + DropRows(Cur, current_y) <= BOARD_HEIGHT - 1)
  /\ [][(LiveStep /\ last'.action = 5) =>
          /\ last'.drop = DropRows(Cur, current_y)
          /\ last'.drop <= BOARD_HEIGHT - 1
          /\ \A k \in 1..last'.drop :
               CanMove(board, current_piece, current_x, current_y + k,
                       current_rotation)
          /\ ~CanMove(board, current_piece, current_x,
                      current_y + last'.drop + 1, current_rotation)]_vars

\* A hard drop on an empty board has run its loop down to the floor, the
\* longest descent the shapes allow.
C32_Witness ==
  /\ LiveReturn
  /\ last.action = 5
  /\ last.drop = BOARD_HEIGHT - 2
  /\ pieces_placed = 1


\* C33. Instance isolation: under any interleaving of step and reset calls on
\* two instances, a call on one instance leaves the other's board, active
\* piece, counters, game_over flag, configuration and generator, hence its
\* piece sequence, unchanged.
C33_InstanceIsolation ==
  [][(call_log'.n = call_log.n + 1) =>
       \A j \in 1..2 : j # call_log'.inst => envs'[j] = envs[j]]_vars

\* Calls have been made on both instances, which are in different states: the
\* one called last has locked a piece, the other has moved its piece and
\* has an empty board.
C33_Witness ==
  /\ call_log.n >= 2
  /\ \E i \in 1..2 : \E j \in 1..2 :
       /\ i = call_log.inst
       /\ j # i
       /\ envs[i].s.pieces_placed >= 1
       /\ envs[i].s.board # EmptyBoard
       /\ envs[j].steps >= 1
       /\ envs[j].s.board = EmptyBoard
       /\ envs[j].rnd # envs[i].rnd


\* C34. Observation encoding: every observation returned by reset or step has
\* 12 components, all non-negative; the first five are the aggregate height,
\* the maximum height, the bumpiness, the holes and the score of the state the
\* call left, the last seven hold exactly one 1, at the index of the current
\* piece kind in the order I, O, T, S, Z, J, L; the max-height and score
\* components equal info.max_height and info.score.
C34_ObservationEncoding ==
  [](/\ Len(ret.obs) = 12
     /\ \A n \in 1..12 : ret.obs[n] >= 0
     /\ ret.obs[1] = AggHeight(board)
     /\ ret.obs[2] = MaxHeight(board)
     /\ ret.obs[3] = Bumpiness(board)
     /\ ret.obs[4] = CountHoles(board)
     /\ ret.obs[5] = score
     /\ SHAPE_NAMES = <<"I", "O", "T", "S", "Z", "J", "L">>
     /\ \A n \in 1..7 :
          ret.obs[5 + n] = IF SHAPE_NAMES[n] = current_piece THEN 1 ELSE 0
     /\ ret.obs[2] = ret.info.max_height
     /\ ret.obs[5] = ret.info.score)

\* A step has returned the observation of a board with a hole, columns of
\* different heights and a positive score, and of a piece that is not the
\* first kind.
C34_Witness ==
  /\ LiveReturn
  /\ ret.obs[5] > 0
  /\ ret.obs[4] > 0
  /\ ret.obs[3] > 0
  /\ ret.obs[2] >= 2
  /\ current_piece # SHAPE_NAMES[1]


\* The number of occupied cells of board b.
OccupiedCells(b) ==
  Cardinality({c \in (1..BOARD_HEIGHT) \X (1..BOARD_WIDTH) : b[c[1]][c[2]] # 0})

\* C35. Cell conservation: in every state between step calls the number of
\* occupied board cells equals 4 * pieces_placed - BOARD_WIDTH * lines_cleared.
C35_CellConservation ==
  OccupiedCells(board) = 4 * pieces_placed - BOARD_WIDTH * lines_cleared


\* C36. At most two locks per step: a live step raises pieces_placed by 0, 1
\* or 2, and by 2 only when it is a hard drop whose gravity tick fired and
\* found the piece spawned after the hard drop's lock unable to move down. The
\* gravity tick of a hard-drop step acts on that spawned piece: it moves it
\* one row down from the spawn position, or locks it there.
C36_AtMostTwoLocks ==
  [][LiveStep =>
       /\ pieces_placed' - pieces_placed \in {0, 1, 2}
       /\ pieces_placed' - pieces_placed = 2 =>
            /\ last'.action = 5
            /\ last'.fired
            /\ ~CanMove(last'.locks[1].post, last'.locks[1].spawned,
                        SpawnX, 1, 0)
       /\ (last'.action = 5 /\ last'.fired) =>
            IF CanMove(last'.locks[1].post, last'.locks[1].spawned,
                       SpawnX, 1, 0)
              THEN /\ Len(last'.locks) = 1
                   /\ PieceAfter = [SpawnedPiece(last'.locks[1].spawned)
                                      EXCEPT !.y = 1]
              ELSE /\ Len(last'.locks) = 2
                   /\ last'.locks[2].pre =
                        Merge(last'.locks[1].post, last'.locks[1].spawned,
                              0, SpawnX, 0)
       /\ (last'.action = 5 /\ ~last'.fired) =>
            /\ Len(last'.locks) = 1
            /\ PieceAfter = SpawnedPiece(last'.locks[1].spawned)]_vars

\* The first step of an episode was a hard drop and has raised pieces_placed
\* by 2: its gravity tick locked the piece spawned after the drop.
C36_Witness ==
  /\ LiveReturn
  /\ last.old_steps = 0
  /\ last.action = 5
  /\ last.fired
  /\ pieces_placed = 2
  /\ Len(last.locks) = 2


\* The step calls a live episode can still make before the active piece is
\* locked: those up to the next gravity tick, then drop_speed for every row
\* between the piece and the last row of the board.
RemainingSteps ==
  (drop_speed - drop_counter) + (BOARD_HEIGHT - 1 - current_y) * drop_speed

\* C37. Every piece eventually locks: on a live episode, drop_speed >= 1, the
\* active piece has between 1 and drop_speed * BOARD_HEIGHT step calls left
\* before it is locked, every step that does not lock it leaves at least one
\* step less and does not move it up, whatever the action, and so the piece
\* is locked at most drop_speed * BOARD_HEIGHT step calls after it spawned; in
\* particular the first piece of an episode is locked within that many steps.
C37_EveryPieceLocks ==
  /\ [](~game_over =>
          /\ drop_speed >= 1
          /\ RemainingSteps \in 1..(drop_speed * BOARD_HEIGHT)
          /\ (current_y = 0 /\ steps = 0) =>
               RemainingSteps = drop_speed * BOARD_HEIGHT)
  /\ [](pieces_placed = 0 => steps < drop_speed * BOARD_HEIGHT)
  /\ [][(LiveStep /\ Len(last'.locks) = 0) =>
          /\ RemainingSteps' <= RemainingSteps - 1
          /\ current_y' >= current_y]_vars

\* The caller has kept the first piece in the air as long as the board
\* allows, moving it sideways in the last step, and gravity has locked it
\* from the lowest row it can occupy.
C37_Witness ==
  /\ LiveReturn
  /\ drop_speed = 1
  /\ steps = BOARD_HEIGHT - 1
  /\ pieces_placed = 1
  /\ last.action \in {0, 1}
  /\ last.moved_horiz
  /\ last.mid.y = BOARD_HEIGHT - 2


\* C38. Anchor row is non-negative and monotone: current_y is never negative;
\* a step on an episode that is over leaves it unchanged; a live step that
\* locks nothing raises it by 0, 1 or 2 (soft drop and gravity, one row each);
\* a hard drop raises it by the length of its descent before the lock; a
\* respawn and reset set it to 0; every piece locked is locked at a row
\* y >= 0, so every cell merged into the board has row >= 0.
C38_AnchorRow ==
  /\ [](current_y >= 0 /\ last.mid.y >= 0)
  /\ [][/\ (game_over /\ ret'.call = "step") => current_y' = current_y
        /\ (ret'.call = "reset") => current_y' = 0
        /\ LiveStep =>
             /\ last'.action \notin {4, 5} => last'.mid.y = current_y
             /\ last'.action = 4 => last'.mid.y \in {current_y, current_y + 1}
             /\ last'.action = 5 =>
                  /\ last'.drop >= 0
                  /\ last'.mid.y = 0
                  /\ last'.locks[1].pre =
                       Merge(board, current_piece, current_rotation,
                             current_x, current_y + last'.drop)
             /\ Len(last'.locks) = MidLocks =>
                  current_y' \in {last'.mid.y, last'.mid.y + 1}
             /\ Len(last'.locks) = MidLocks =>
                  (current_y' = last'.mid.y + 1 => last'.fired)
             /\ Len(last'.locks) > MidLocks => current_y' = 0]_vars

\* A soft drop and the gravity tick of the same step have each moved the
\* piece one row down without locking it.
C38_Witness ==
  /\ LiveReturn
  /\ last.action = 4
  /\ Len(last.locks) = 0
  /\ last.fired
  /\ current_y = 2
  /\ last.mid.y = 1
  /\ pieces_placed >= 1


\* The number of board rows the piece covers.
RowsCovered(kind, rotation) ==
  Cardinality({c[1] : c \in Cells(kind, rotation)})

====
